---- MODULE Spec2Model ----
(***************************************************************************)
(* alnio: an epoll based TCP server core.                                  *)
(*                                                                         *)
(* The model holds the three kinds of threads of the program (the accept   *)
(* loop of lib.rs, the dispatcher thread of event_loop.rs and user code    *)
(* that calls the Connection API of conn.rs), the process-wide maps        *)
(* (CONN_MAP, RX_BUF_MAP, TX_BUF_MAP), the Buffer objects behind the Arc   *)
(* handles, and the kernel objects the code talks to: sockets, their       *)
(* receive queues and the epoll interest list.                             *)
(***************************************************************************)
EXTENDS Integers, Sequences, FiniteSets, TLC

(* ------------------------------ bounds -------------------------------- *)

\* descriptor numbers the kernel hands out: 1..NumFds (lowest free first)
NumFds == 1
\* connections the listener accepts in one run
MaxConns == 2
\* bytes a peer writes on one connection
MaxPeerBytes == 1
\* bytes user code enqueues on one TX buffer
MaxSendBytes == 3
\* a Buffer on its own: the length of an argument of append and prepend,
\* and the byte values 1..MaxByte
MaxStrLen == 2
MaxByte == 2

(* ------------------------- program constants -------------------------- *)

\* socket.rs: const BUF_LEN: usize = 4096 (the scratch buffer of recv)
BUF_LEN == 4096
\* socket.rs: sock_buf.extract(usize::MAX); the largest integer TLC
\* handles stands for it: every value >= any buffer length acts alike
USIZE_MAX == 2147483647

FDs == 1..NumFds
ConnIds == 1..MaxConns

VARIABLES
    \* ---- kernel ----
    sock,       \* open descriptors: fd -> [id, st, rq, wrote, sent]: the
                \* accepted connection, its state, the kernel receive
                \* queue, the number of bytes the peer has written and the
                \* bytes that kernel sends have accepted
    interest,   \* epoll interest list: enrolled fd -> "off" | "R" | "RW"
    nextConn,   \* connections accepted so far
    \* ---- process-wide state ----
    connMap,    \* event_loop.rs CONN_MAP: fd -> Connection
    rxMap,      \* socket.rs RX_BUF_MAP: fd -> Arc<Buffer> (a buffer id)
    txMap,      \* socket.rs TX_BUF_MAP: fd -> Arc<Buffer> (a buffer id)
    rxBuf,      \* the RX Buffer objects, by buffer id (empty when no
                \* Arc refers to the buffer any more: it is dropped)
    txBuf,      \* the TX Buffer objects, by buffer id (likewise)
    enq,        \* per TX Buffer: number of bytes Connection::send appended
    calls,      \* per TX Buffer: the lengths of the Connection::send calls
    \* ---- accept thread (lib.rs) ----
    apc, aconn,
    \* ---- dispatcher thread (event_loop.rs) ----
    dpc,        \* position
    dq,         \* events of the current epoll::wait batch, current one first
    dconn,      \* conn returned by map_get
    dbuf,       \* Arc<Buffer> held by socket::recv / socket::send
    dtotal,     \* socket::recv: total_recvd
    dout,       \* socket::send: buf, the bytes extracted from the TX buffer
    derr,       \* the error handed to on_error
    dpath,      \* which of the close / read / write paths is running
    \* ---- user code ----
    running,    \* callback invocations begun and not yet returned
    sh,         \* per thread: position inside Connection::shutdown
    handles,    \* Connection values user code has been handed
    shutCalled, \* <<conn, thread>>: Connection::shutdown calls made
    \* ---- history of the dispatcher ----
    dstat,      \* the event being handled: re-arm calls made for it,
                \* whether a path returned Ok, whether a path returned Err
    armedRW,    \* descriptors the write path armed with set_events_rw and
                \* for which no socket::send has returned (_, false) since
    errored,    \* open connections on_error has been invoked for
    \* ---- a Buffer of buf.rs on its own ----
    bpc,        \* next operation applied to the Buffer
    ba, bb, bn, \* the arguments: of append, of prepend, of extract
    bv,         \* the Vec<u8> behind the mutex
    bpre,       \* the Vec<u8> as it was when extract was called
    bret        \* extract's ret_buf

kvars == <<sock, interest, nextConn>>
mvars == <<connMap, rxMap, txMap>>
bvars == <<rxBuf, txBuf, enq, calls>>
avars == <<apc, aconn>>
dvars == <<dpc, dq, dconn, dbuf, dtotal, dout, derr, dpath>>
uvars == <<running, sh, handles, shutCalled>>
gvars == <<dstat, armedRW, errored>>
hvars == <<bpc, ba, bb, bn, bv, bpre, bret>>
vars == <<kvars, mvars, bvars, avars, dvars, uvars, gvars, hvars>>

(* ------------------------------ helpers ------------------------------- *)

Min(a, b) == IF a < b THEN a ELSE b

\* a map without key k
Remove(m, k) == [x \in DOMAIN m \ {k} |-> m[x]]

\* a map with key k set to v (BTreeMap::insert: overwrites)
Insert(m, k, v) == [x \in DOMAIN m \cup {k} |-> IF x = k THEN v ELSE m[x]]

\* a sequence without its i-th element
RemoveAt(s, i) == [x \in 1..(Len(s) - 1) |-> IF x < i THEN s[x] ELSE s[x + 1]]

\* every ordering of a finite set
Perms(S) ==
    {q \in [1..Cardinality(S) -> S] :
        \A i, j \in 1..Cardinality(S) : i # j => q[i] # q[j]}

\* conn.rs: struct Connection { socket, addr }; the peer address is the
\* accepted connection's identity
Connection(fd, id) == [socket |-> fd, addr |-> id]
NoConn == [socket |-> 0, addr |-> 0]
AllConns == {Connection(fd, id) : fd \in FDs, id \in ConnIds}

\* the threads that run user code: the dispatcher (callbacks) and one
\* application thread
Threads == {"D", "U"}

(* --------------------------- buf.rs: Buffer --------------------------- *)

\* Buffer::append: v.extend_from_slice(buf)
append(v, buf) == v \o buf

\* a prepend that puts buf behind the stored bytes
prepend_behind(v, buf) == v \o buf

\* Buffer::prepend: nv = buf ++ v; swap
prepend(v, buf) == buf \o v

\* an extract that gives nothing when asked for more than is stored
extract_len_none(v, len) == IF Len(v) < len THEN 0 ELSE len

\* Buffer::extract: the length actually taken
extract_len(v, len) == IF Len(v) < len THEN Len(v) ELSE len

\* Buffer::extract: ret_buf, a copy of v[0..len]
extract_ret(v, len) == [x \in 1..extract_len(v, len) |-> v[x]]

\* Buffer::extract: what stays: v[x] = v[x + len] for x in 0..remaining_len,
\* then set_len(remaining_len)
extract_rest(v, len) ==
    [x \in 1..(Len(v) - extract_len(v, len)) |-> v[x + extract_len(v, len)]]

(* ------------------- event_loop.rs: the event bits -------------------- *)

\* set_events_r: EPOLLET | EPOLLONESHOT | EPOLLIN | EPOLLRDHUP
set_events_r == "R"
\* set_events_rw: EPOLLET | EPOLLONESHOT | EPOLLIN | EPOLLOUT | EPOLLRDHUP
set_events_rw == "RW"

close_event(e) == e \cap {"ERR", "HUP", "RDHUP"} # {}
read_event(e) == "IN" \in e
write_event(e) == "OUT" \in e
socket_error(e) == "ERR" \in e

(* ------------------------------ kernel -------------------------------- *)

\* the lowest descriptor number that is not open
FreeFds == FDs \ DOMAIN sock
LowestFree == CHOOSE fd \in FreeFds : \A g \in FreeFds : fd <= g

\* what epoll reports for an enrolled descriptor: the requested bits that
\* are ready, and the error and hangup bits, which are always reported
ReadyBits(fd) ==
    IF fd \notin DOMAIN sock \/ fd \notin DOMAIN interest THEN {}
    ELSE LET s == sock[fd]
             i == interest[fd]
         IN  IF i = "off" THEN {}
             ELSE  (IF s.rq # <<>> \/ s.st # "open" THEN {"IN"} ELSE {})
              \cup (IF s.st # "open" THEN {"RDHUP"} ELSE {})
              \cup (IF s.st = "rst" THEN {"ERR", "HUP"} ELSE {})
              \cup (IF s.st = "shut" THEN {"HUP"} ELSE {})
              \cup (IF i = "RW" THEN {"OUT"} ELSE {})

Deliverable == {fd \in FDs : ReadyBits(fd) # {}}

\* the event sets epoll may report for a descriptor: EPOLLOUT is left out
\* of an event when the socket's send buffer is full at that moment
ReportedBits(fd) ==
    {ReadyBits(fd)} \cup
    (IF "OUT" \in ReadyBits(fd) /\ ReadyBits(fd) # {"OUT"}
     THEN {ReadyBits(fd) \ {"OUT"}}
     ELSE {})

\* close(fd): the descriptor goes, and with it its epoll enrollment
KernelClose(fd) ==
    /\ sock' = Remove(sock, fd)
    /\ interest' = Remove(interest, fd)

(* ------------------------------- Init --------------------------------- *)

NoShutdown == [pc |-> "idle", conn |-> NoConn]

\* no event is being handled
NoStat == [rearms |-> 0, ok |-> FALSE, err |-> FALSE]

\* the program after lib.rs start: socket::init and event_loop::init have
\* run, nothing is accepted yet
ProgramInit ==
    /\ sock = <<>>
    /\ interest = <<>>
    /\ nextConn = 0
    /\ connMap = <<>>
    /\ rxMap = <<>>
    /\ txMap = <<>>
    /\ rxBuf = [c \in ConnIds |-> <<>>]
    /\ txBuf = [c \in ConnIds |-> <<>>]
    /\ enq = [c \in ConnIds |-> 0]
    /\ calls = [c \in ConnIds |-> <<>>]
    /\ apc = "accept"
    /\ aconn = NoConn
    /\ dpc = "wait"
    /\ dq = <<>>
    /\ dconn = NoConn
    /\ dbuf = 0
    /\ dtotal = 0
    /\ dout = <<>>
    /\ derr = ""
    /\ dpath = ""
    /\ running = <<>>
    /\ sh = [t \in Threads |-> NoShutdown]
    /\ handles = {}
    /\ shutCalled = {}
    /\ dstat = NoStat
    /\ armedRW = {}
    /\ errored = {}

\* the Buffer on its own is not exercised
BufIdle ==
    /\ bpc = "idle"
    /\ ba = <<>>
    /\ bb = <<>>
    /\ bn = 0
    /\ bv = <<>>
    /\ bpre = <<>>
    /\ bret = <<>>

Init == ProgramInit /\ BufIdle

(* ----------------------- lib.rs: the accept loop ---------------------- *)

\* accept_connection: tcp_listener.accept(), set_nonblocking, into_raw_fd
accept_connection ==
    /\ apc = "accept"
    /\ nextConn < MaxConns
    /\ FreeFds # {}
    /\ nextConn' = nextConn + 1
    /\ sock' = Insert(sock, LowestFree,
                      [id |-> nextConn + 1, st |-> "open", rq |-> <<>>,
                       wrote |-> 0, sent |-> <<>>])
    /\ aconn' = Connection(LowestFree, nextConn + 1)
    /\ apc' = "init"
    /\ UNCHANGED <<hvars, gvars, interest, mvars, bvars, dvars, uvars>>

\* socket::init: map_add(&RX_BUF_MAP, fd); map_add(&TX_BUF_MAP, fd), each a
\* fresh Arc<Buffer>
socket_init ==
    /\ apc = "init"
    /\ rxMap' = Insert(rxMap, aconn.socket, aconn.addr)
    /\ txMap' = Insert(txMap, aconn.socket, aconn.addr)
    /\ apc' = "map_add"
    /\ UNCHANGED <<hvars, gvars, kvars, connMap, bvars, aconn, dvars, uvars>>

\* event_loop::add_conn, first half: map_add(conn)
add_conn_map_add ==
    /\ apc = "map_add"
    /\ connMap' = Insert(connMap, aconn.socket, aconn)
    /\ apc' = "epoll_add"
    /\ UNCHANGED <<hvars, gvars, kvars, rxMap, txMap, bvars, aconn, dvars, uvars>>

\* epoll_ctl(EPOLL_CTL_ADD) with the events of set_events_r; the kernel
\* may refuse (ENOMEM, ENOSPC), and add_conn's caller only logs that
epoll_add(fd, ok) ==
    IF ok /\ fd \in DOMAIN sock /\ fd \notin DOMAIN interest
    THEN interest' = Insert(interest, fd, set_events_r)
    ELSE interest' = interest

\* event_loop::add_conn, second half: epoll_add(event)
add_conn_epoll_add ==
    /\ apc = "epoll_add"
    /\ \E ok \in BOOLEAN : epoll_add(aconn.socket, ok)
    /\ apc' = "on_connect"
    /\ UNCHANGED <<hvars, gvars, sock, nextConn, mvars, bvars, aconn, dvars, uvars>>

\* on_new_connection: f(&conn), the on_connect callback; user code keeps
\* the handle
on_connect ==
    /\ apc = "on_connect"
    /\ handles' = handles \cup {aconn}
    /\ apc' = "accept"
    /\ aconn' = NoConn
    /\ UNCHANGED <<hvars, gvars, kvars, mvars, bvars, dvars, running, sh, shutCalled>>

(* ------------------------------ the peer ------------------------------ *)

\* the peer writes its next byte; its k-th byte has the value k
PeerSend(fd) ==
    /\ fd \in DOMAIN sock
    /\ sock[fd].st = "open"
    /\ sock[fd].wrote < MaxPeerBytes
    /\ sock' = [sock EXCEPT ![fd].rq = Append(@, sock[fd].wrote + 1),
                            ![fd].wrote = @ + 1]
    /\ UNCHANGED <<hvars, gvars, interest, nextConn, mvars, bvars, avars, dvars, uvars>>

\* the peer shuts down its writing side: end-of-stream follows the queue
PeerShutdownWrite(fd) ==
    /\ fd \in DOMAIN sock
    /\ sock[fd].st = "open"
    /\ sock' = [sock EXCEPT ![fd].st = "fin"]
    /\ UNCHANGED <<hvars, gvars, interest, nextConn, mvars, bvars, avars, dvars, uvars>>

\* the peer resets the connection: the queue is dropped
PeerReset(fd) ==
    /\ fd \in DOMAIN sock
    /\ sock[fd].st \in {"open", "fin"}
    /\ sock' = [sock EXCEPT ![fd].st = "rst", ![fd].rq = <<>>]
    /\ UNCHANGED <<hvars, gvars, interest, nextConn, mvars, bvars, avars, dvars, uvars>>

(* ------------------- conn.rs: the Connection API --------------------- *)

\* thread t runs user code that holds handle h and is not inside another
\* call: the application thread with a handle it was given, or the
\* dispatcher thread inside a callback that was passed h
CanCall(t, h) ==
    /\ sh[t].pc = "idle"
    /\ IF t = "D"
       THEN \E i \in 1..Len(running) : running[i].conn = h
       ELSE h \in handles

\* An Arc<Buffer> goes out of scope.  The Buffer b is freed, and reads as
\* `empty` from then on, when no map in `mapped` refers to it and the
\* dispatcher does not hold another Arc to it (it does while it is at
\* position `pc` with dbuf = b).
drop_arc(bufs, b, mapped, pc, empty) ==
    IF b \in mapped \/ (dpc = pc /\ dbuf = b)
    THEN bufs
    ELSE [bufs EXCEPT ![b] = empty]

\* socket::add_to_tx_buf / peek / take: map_get found the buffer
tx_buf_found(fd) == fd \in DOMAIN txMap
rx_buf_found(fd) == fd \in DOMAIN rxMap

\* socket::peek: Ok(sock_buf.len()) or Err("Unable to find fd")
peek(fd) == IF rx_buf_found(fd) THEN Len(rxBuf[rxMap[fd]]) ELSE -1

\* socket::add_to_tx_buf: sock_buf.append(buf), buf of n bytes; the bytes
\* appended are the next n of the buffer's stream 1, 2, ...
add_to_tx_buf(fd, n) ==
    /\ tx_buf_found(fd)
    /\ enq[txMap[fd]] + n <= MaxSendBytes
    /\ txBuf' = [txBuf EXCEPT ![txMap[fd]] =
                    append(@, [i \in 1..n |-> enq[txMap[fd]] + i])]
    /\ enq' = [enq EXCEPT ![txMap[fd]] = @ + n]
    /\ calls' = [calls EXCEPT ![txMap[fd]] = Append(@, n)]

\* Connection::send with a buffer of n bytes
ConnSend(t, h, n) ==
    /\ CanCall(t, h)
    /\ add_to_tx_buf(h.socket, n)
    /\ UNCHANGED <<hvars, gvars, kvars, mvars, rxBuf, avars, dvars, uvars>>

\* socket::take: sock_buf.extract(buf.len())
take(fd, n) ==
    /\ rx_buf_found(fd)
    /\ rxBuf[rxMap[fd]] # <<>>
    /\ rxBuf' = [rxBuf EXCEPT ![rxMap[fd]] = extract_rest(@, n)]

\* Connection::recv with a destination of n bytes
ConnRecv(t, h, n) ==
    /\ CanCall(t, h)
    /\ take(h.socket, n)
    /\ UNCHANGED <<hvars, gvars, kvars, mvars, txBuf, enq, calls, avars, dvars, uvars>>

\* a del_conn that leaves the registry as it is
conn_map_del_kept(m, fd) == m

\* event_loop.rs map_del: map.remove(&c.socket)
conn_map_del(m, fd) == Remove(m, fd)

\* event_loop::del_conn, first half: map_del(conn).  User code calls
\* Connection::shutdown once per handle.
shutdown_map_del(t, h) ==
    /\ CanCall(t, h)
    /\ \A u \in Threads : <<h, u>> \notin shutCalled
    /\ shutCalled' = shutCalled \cup {<<h, t>>}
    /\ connMap' = conn_map_del(connMap, h.socket)
    /\ sh' = [sh EXCEPT ![t] = [pc |-> "epoll_del", conn |-> h]]
    /\ UNCHANGED <<hvars, gvars, kvars, rxMap, txMap, bvars, avars, dvars, running, handles>>

\* event_loop::del_conn, second half: epoll_del(event); an error (the
\* descriptor is not enrolled) is dropped by Connection::shutdown
shutdown_epoll_del(t) ==
    /\ sh[t].pc = "epoll_del"
    /\ interest' = Remove(interest, sh[t].conn.socket)
    /\ sh' = [sh EXCEPT ![t].pc = "sock_shutdown"]
    /\ UNCHANGED <<hvars, gvars, sock, nextConn, mvars, bvars, avars, dvars, running,
                   handles, shutCalled>>

\* socket::shutdown: map_del of both buffers, libc::shutdown(fd, SHUT_RDWR)
socket_shutdown(t) ==
    /\ sh[t].pc = "sock_shutdown"
    /\ rxMap' = Remove(rxMap, sh[t].conn.socket)
    /\ txMap' = Remove(txMap, sh[t].conn.socket)
    /\ sock' = IF sh[t].conn.socket \in DOMAIN sock
               THEN [sock EXCEPT ![sh[t].conn.socket].st = "shut"]
               ELSE sock
    /\ rxBuf' = IF rx_buf_found(sh[t].conn.socket)
                THEN drop_arc(rxBuf, rxMap[sh[t].conn.socket],
                              {rxMap[fd] : fd \in DOMAIN rxMap'},
                              "recv_loop", <<>>)
                ELSE rxBuf
    /\ txBuf' = IF tx_buf_found(sh[t].conn.socket)
                THEN drop_arc(txBuf, txMap[sh[t].conn.socket],
                              {txMap[fd] : fd \in DOMAIN txMap'},
                              "send_sys", <<>>)
                ELSE txBuf
    /\ enq' = IF tx_buf_found(sh[t].conn.socket)
              THEN drop_arc(enq, txMap[sh[t].conn.socket],
                            {txMap[fd] : fd \in DOMAIN txMap'}, "send_sys", 0)
              ELSE enq
    /\ calls' = IF tx_buf_found(sh[t].conn.socket)
                THEN drop_arc(calls, txMap[sh[t].conn.socket],
                              {txMap[fd] : fd \in DOMAIN txMap'},
                              "send_sys", <<>>)
                ELSE calls
    /\ sh' = [sh EXCEPT ![t].pc = "close"]
    /\ UNCHANGED <<hvars, gvars, interest, nextConn, connMap, avars, dvars, running,
                   handles, shutCalled>>

\* socket::close: libc::close(fd); Connection::shutdown returns
socket_close(t) ==
    /\ sh[t].pc = "close"
    /\ KernelClose(sh[t].conn.socket)
    /\ armedRW' = armedRW \ {sh[t].conn.socket}
    /\ errored' = IF sh[t].conn.socket \in DOMAIN sock
                  THEN errored \ {sock[sh[t].conn.socket].id}
                  ELSE errored
    /\ sh' = [sh EXCEPT ![t] = NoShutdown]
    /\ UNCHANGED <<hvars, dstat, nextConn, mvars, bvars, avars, dvars, running, handles,
                   shutCalled>>

\* Connection::shutdown has been called for h and has returned
ShutdownReturned(h) ==
    \E t \in Threads :
        /\ <<h, t>> \in shutCalled
        /\ ~(sh[t].pc # "idle" /\ sh[t].conn = h)

(* ------------------ event_loop.rs: the dispatcher -------------------- *)

\* the dispatcher's position and locals after a step
Goto(pc, q, conn, buf, total, out, err, path) ==
    /\ dpc' = pc
    /\ dq' = q
    /\ dconn' = conn
    /\ dbuf' = buf
    /\ dtotal' = total
    /\ dout' = out
    /\ derr' = err
    /\ dpath' = path

\* handle_epoll_event returns: on to the next event of the batch
FinishEvent == Goto("event", Tail(dq), NoConn, 0, 0, <<>>, "", "")

\* handle_epoll_event after handle_read_event: if write_event(e.events)
AfterRead ==
    IF write_event(Head(dq).events)
    THEN Goto("write", dq, NoConn, 0, 0, <<>>, "", "write")
    ELSE FinishEvent

\* epoll_ctl(EPOLL_CTL_MOD): fails, and is only logged, when the descriptor
\* is closed or not enrolled
epoll_mod(fd, events) ==
    IF fd \in DOMAIN interest /\ fd \in DOMAIN sock
    THEN interest' = [interest EXCEPT ![fd] = events]
    ELSE interest' = interest

\* super::on_error(conn, err): the callback is entered
on_error(conn, err) ==
    /\ running' = Append(running, [cb |-> "on_error", conn |-> conn])
    /\ Goto("on_error", dq, conn, 0, dtotal, <<>>, err, dpath)

\* a would-block of the drain loop handed to the user as an error
on_recv_surfaced(conn) == on_error(conn, "WouldBlock")

\* an on_recv the dispatcher does not wait for
on_recv_detached(conn) ==
    /\ running' = Append(running, [cb |-> "on_recv", conn |-> conn])
    /\ Goto("rearm_r", dq, conn, 0, dtotal, <<>>, "", dpath)

\* super::on_recv(conn): the callback is entered; the dispatcher goes on
\* when it has returned
on_recv(conn) ==
    /\ running' = Append(running, [cb |-> "on_recv", conn |-> conn])
    /\ Goto("on_recv", dq, conn, 0, dtotal, <<>>, "", dpath)

\* event_loop: epoll::wait returns the ready events; one-shot: the kernel
\* disables each descriptor it reports
epoll_wait ==
    /\ Deliverable # {}
    /\ \E q \in Perms(Deliverable) :
       \E ev \in [Deliverable -> SUBSET {"IN", "OUT", "ERR", "HUP", "RDHUP"}] :
           /\ \A fd \in Deliverable : ev[fd] \in ReportedBits(fd)
           /\ Goto("event",
                   [i \in DOMAIN q |-> [fd |-> q[i], events |-> ev[q[i]]]],
                   NoConn, 0, 0, <<>>, "", "")
    /\ interest' = [fd \in DOMAIN interest |->
                       IF fd \in Deliverable THEN "off" ELSE interest[fd]]
    /\ UNCHANGED <<hvars, sock, nextConn, mvars, bvars, avars, uvars>>

\* event_loop / handle_epoll_event: the branch taken for the next event
handle_epoll_event ==
    /\ IF dq = <<>>
       THEN Goto("wait", <<>>, NoConn, 0, 0, <<>>, "", "")
       ELSE IF close_event(Head(dq).events)
       THEN Goto("close", dq, NoConn, 0, 0, <<>>, "", "close")
       ELSE IF read_event(Head(dq).events)
       THEN Goto("read", dq, NoConn, 0, 0, <<>>, "", "read")
       ELSE IF write_event(Head(dq).events)
       THEN Goto("write", dq, NoConn, 0, 0, <<>>, "", "write")
       ELSE FinishEvent
    /\ UNCHANGED <<hvars, kvars, mvars, bvars, avars, uvars>>

\* a close path that also takes the connection out of the registry
handle_close_event_del ==
    /\ IF Head(dq).fd \in DOMAIN connMap
       THEN on_error(connMap[Head(dq).fd],
                     IF socket_error(Head(dq).events) THEN "SockErr" ELSE "EOF")
       ELSE FinishEvent /\ running' = running
    /\ connMap' = conn_map_del(connMap, Head(dq).fd)
    /\ UNCHANGED <<hvars, kvars, rxMap, txMap, bvars, avars, sh, handles,
                   shutCalled>>

\* handle_close_event: the error is looked up, then map_get(fd)
handle_close_event ==
    /\ IF Head(dq).fd \in DOMAIN connMap
       THEN on_error(connMap[Head(dq).fd],
                     IF socket_error(Head(dq).events) THEN "SockErr" ELSE "EOF")
       ELSE FinishEvent /\ running' = running
    /\ UNCHANGED <<hvars, kvars, mvars, bvars, avars, sh, handles, shutCalled>>

\* handle_read_event: map_get(fd)
handle_read_event ==
    /\ IF Head(dq).fd \in DOMAIN connMap
       THEN Goto("recv", dq, connMap[Head(dq).fd], 0, 0, <<>>, "", dpath)
       ELSE AfterRead
    /\ UNCHANGED <<hvars, kvars, mvars, bvars, avars, uvars>>

\* socket::recv, entry: map_get(&RX_BUF_MAP, fd)
recv_map_get ==
    /\ IF rx_buf_found(dconn.socket)
       THEN /\ Goto("recv_loop", dq, dconn, rxMap[dconn.socket], 0, <<>>, "",
                    dpath)
            /\ running' = running
       ELSE on_error(dconn, "InvalidInput")
    /\ UNCHANGED <<hvars, kvars, mvars, bvars, avars, sh, handles, shutCalled>>

\* socket::recv returns: rx_buf, its Arc<Buffer>, goes out of scope
recv_return ==
    /\ rxBuf' = drop_arc(rxBuf, dbuf, {rxMap[fd] : fd \in DOMAIN rxMap},
                         "returned", <<>>)
    /\ sock' = sock

\* socket::recv, one turn of the loop: libc::recv(fd, b, BUF_LEN, 0)
recv_loop ==
    /\ IF dconn.socket \notin DOMAIN sock
       THEN \* r == -1, EBADF
            on_error(dconn, "Os") /\ recv_return
       ELSE IF sock[dconn.socket].rq # <<>>
       THEN \* r > 0: rx_buf.append(&buf[0..num_read])
            LET rq == sock[dconn.socket].rq
                num_read == Min(Len(rq), BUF_LEN)
            IN  /\ rxBuf' = [rxBuf EXCEPT
                                ![dbuf] = append(@, SubSeq(rq, 1, num_read))]
                /\ sock' = [sock EXCEPT ![dconn.socket].rq =
                                SubSeq(rq, num_read + 1, Len(rq))]
                /\ Goto("recv_loop", dq, dconn, dbuf, dtotal + num_read, <<>>,
                        "", dpath)
                /\ running' = running
       ELSE IF sock[dconn.socket].st = "open"
       THEN \* r == -1, WouldBlock: break; Ok(total_recvd)
            on_recv(dconn) /\ recv_return
       ELSE IF sock[dconn.socket].st \in {"fin", "shut"}
       THEN \* r == 0
            on_error(dconn, "EOF") /\ recv_return
       ELSE \* r == -1, ECONNRESET
            on_error(dconn, "Os") /\ recv_return
    /\ UNCHANGED <<hvars, interest, nextConn, mvars, txBuf, enq, calls, avars, sh, handles,
                   shutCalled>>

\* an epoll_rearm_r that asks for the writable bit as well
epoll_rearm_r_out(c) == epoll_mod(c.socket, set_events_rw)

\* epoll_rearm_r(c): epoll_mod with the events of set_events_r
epoll_rearm_r(c) == epoll_mod(c.socket, set_events_r)

\* handle_read_event / handle_write_event: the call of epoll_rearm_r(conn)
rearm_r ==
    /\ epoll_rearm_r(dconn)
    /\ IF dpath = "read" THEN AfterRead ELSE FinishEvent
    /\ UNCHANGED <<hvars, sock, nextConn, mvars, bvars, avars, uvars>>

\* handle_write_event: map_get(fd)
handle_write_event ==
    /\ IF Head(dq).fd \in DOMAIN connMap
       THEN Goto("send", dq, connMap[Head(dq).fd], 0, 0, <<>>, "", dpath)
       ELSE FinishEvent
    /\ UNCHANGED <<hvars, kvars, mvars, bvars, avars, uvars>>

\* socket::send, entry: map_get(&TX_BUF_MAP, fd); sock_buf.extract(usize::MAX)
send_extract ==
    /\ IF tx_buf_found(dconn.socket)
       THEN /\ Goto("send_sys", dq, dconn, txMap[dconn.socket], 0,
                    extract_ret(txBuf[txMap[dconn.socket]], USIZE_MAX), "",
                    dpath)
            /\ txBuf' = [txBuf EXCEPT
                            ![txMap[dconn.socket]] = extract_rest(@, USIZE_MAX)]
            /\ running' = running
       ELSE /\ on_error(dconn, "InvalidInput")
            /\ txBuf' = txBuf
    /\ UNCHANGED <<hvars, kvars, mvars, rxBuf, enq, calls, avars, sh, handles, shutCalled>>

\* what libc::send(fd, b, l, 0) may return on a connected socket: -1 with
\* EWOULDBLOCK, or the number of bytes the kernel took
SendResults(l) == IF l = 0 THEN {0} ELSE {-1} \cup (1..l)

\* socket::send returns with the TX buffer holding tx: sock_buf, its
\* Arc<Buffer>, goes out of scope
send_return(tx) ==
    /\ txBuf' = drop_arc(tx, dbuf, {txMap[fd] : fd \in DOMAIN txMap},
                         "returned", <<>>)
    /\ enq' = drop_arc(enq, dbuf, {txMap[fd] : fd \in DOMAIN txMap},
                       "returned", 0)
    /\ calls' = drop_arc(calls, dbuf, {txMap[fd] : fd \in DOMAIN txMap},
                         "returned", <<>>)

\* socket::send after libc::send returned r >= 0 or r == -1 with WouldBlock
send_result(r) ==
    IF r = -1
    THEN \* return Ok((0, true))
         /\ Goto("rearm_rw", dq, dconn, 0, 0, <<>>, "", dpath)
         /\ send_return(txBuf)
         /\ sock' = sock
    ELSE IF r = 0
    THEN \* buf.len() == 0: return Ok((0, false))
         /\ Goto("rearm_r", dq, dconn, 0, 0, <<>>, "", dpath)
         /\ send_return(txBuf)
         /\ sock' = sock
    ELSE /\ sock' = [sock EXCEPT ![dconn.socket].sent = @ \o SubSeq(dout, 1, r)]
         /\ IF r < Len(dout)
            THEN \* sock_buf.prepend(&buf[sent..buf.len()]); rearm_rw = true
                 /\ send_return([txBuf EXCEPT ![dbuf] =
                                    prepend(@, SubSeq(dout, r + 1, Len(dout)))])
                 /\ Goto("rearm_rw", dq, dconn, 0, 0, <<>>, "", dpath)
            ELSE /\ send_return(txBuf)
                 /\ Goto("rearm_r", dq, dconn, 0, 0, <<>>, "", dpath)

\* socket::send: libc::send and what follows it
send_sys ==
    /\ IF \/ dconn.socket \notin DOMAIN sock
          \/ sock[dconn.socket].st \in {"rst", "shut"}
       THEN \* r == -1 with EBADF, EPIPE or ECONNRESET: return Err(e)
            /\ on_error(dconn, "Os")
            /\ send_return(txBuf)
            /\ sock' = sock
       ELSE /\ \E r \in SendResults(Len(dout)) : send_result(r)
            /\ running' = running
    /\ UNCHANGED <<hvars, interest, nextConn, mvars, rxBuf, avars, sh, handles,
                   shutCalled>>

\* epoll_rearm_rw(fd): map_get(fd), then epoll_mod with set_events_rw
epoll_rearm_rw(fd) ==
    IF fd \in DOMAIN connMap
    THEN epoll_mod(connMap[fd].socket, set_events_rw)
    ELSE interest' = interest

\* handle_write_event: the call of epoll_rearm_rw(conn.socket)
rearm_rw ==
    /\ epoll_rearm_rw(dconn.socket)
    /\ FinishEvent
    /\ UNCHANGED <<hvars, sock, nextConn, mvars, bvars, avars, uvars>>

\* the history of the event being handled, after a dispatcher step:
\* handle_epoll_event starts a new event; the handlers call epoll_rearm_r
\* or epoll_rearm_rw; socket::recv and socket::send return Ok or Err
dstat_step ==
    IF dpc = "event"
    THEN NoStat
    ELSE [rearms |-> dstat.rearms +
                     (IF dpc \in {"rearm_r", "rearm_rw"} THEN 1 ELSE 0),
          ok |-> \/ dstat.ok
                 \/ dpc = "recv_loop" /\ dpc' = "on_recv"
                 \/ dpc = "send_sys" /\ dpc' \in {"rearm_r", "rearm_rw"},
          err |-> dstat.err \/ dpc' = "on_error"]

\* the descriptors armed with set_events_rw, after a dispatcher step
armedRW_step ==
    IF /\ dpc = "rearm_rw"
       /\ dconn.socket \in DOMAIN interest'
       /\ interest'[dconn.socket] = set_events_rw
    THEN armedRW \cup {dconn.socket}
    ELSE IF dpc = "send_sys" /\ dpc' = "rearm_r"
    THEN armedRW \ {dconn.socket}
    ELSE armedRW

\* the connections on_error has been invoked for, after a dispatcher step
errored_step ==
    IF dpc # "on_error" /\ dpc' = "on_error"
    THEN errored \cup {dconn'.addr}
    ELSE errored

\* the dispatcher's step at its position
DispatcherStep ==
    CASE dpc = "wait" -> epoll_wait
      [] dpc = "event" -> handle_epoll_event
      [] dpc = "close" -> handle_close_event
      [] dpc = "read" -> handle_read_event
      [] dpc = "recv" -> recv_map_get
      [] dpc = "recv_loop" -> recv_loop
      [] dpc = "rearm_r" -> rearm_r
      [] dpc = "write" -> handle_write_event
      [] dpc = "send" -> send_extract
      [] dpc = "send_sys" -> send_sys
      [] dpc = "rearm_rw" -> rearm_rw
      [] OTHER -> FALSE

\* one step of the dispatcher thread
Dispatcher ==
    /\ DispatcherStep
    /\ dstat' = dstat_step
    /\ armedRW' = armedRW_step
    /\ errored' = errored_step

\* the callback running[i] returns; the dispatcher, which waits for it,
\* goes on: on_recv is followed by the re-arm, on_error by nothing
callback_return(i) ==
    /\ i \in 1..Len(running)
    /\ sh["D"].pc = "idle"
    /\ running' = RemoveAt(running, i)
    /\ IF running[i].cb = "on_recv" /\ dpc = "on_recv"
       THEN Goto("rearm_r", dq, dconn, 0, 0, <<>>, "", dpath)
       ELSE IF running[i].cb = "on_error" /\ dpc = "on_error"
       THEN IF dpath = "read" THEN AfterRead ELSE FinishEvent
       ELSE UNCHANGED dvars
    /\ UNCHANGED <<hvars, gvars, kvars, mvars, bvars, avars, sh, handles, shutCalled>>

(* --------------------------- specification ---------------------------- *)

Next ==
    \/ accept_connection
    \/ socket_init
    \/ add_conn_map_add
    \/ add_conn_epoll_add
    \/ on_connect
    \/ \E fd \in FDs : PeerSend(fd)
    \/ \E fd \in FDs : PeerShutdownWrite(fd)
    \/ \E fd \in FDs : PeerReset(fd)
    \/ \E t \in Threads, h \in AllConns, n \in 1..MaxSendBytes :
           ConnSend(t, h, n)
    \/ \E t \in Threads, h \in AllConns, n \in 1..MaxPeerBytes :
           ConnRecv(t, h, n)
    \/ \E t \in Threads, h \in AllConns : shutdown_map_del(t, h)
    \/ \E t \in Threads : shutdown_epoll_del(t)
    \/ \E t \in Threads : socket_shutdown(t)
    \/ \E t \in Threads : socket_close(t)
    \/ Dispatcher
    \/ \E i \in 1..MaxConns : callback_return(i)

Spec == Init /\ [][Next]_vars

\* the dispatcher is scheduled whenever it can take a step, and user
\* callbacks return
FairSpec ==
    /\ Spec
    /\ WF_vars(Dispatcher)
    /\ WF_vars(\E i \in 1..MaxConns : callback_return(i))

\* The handlers under a writable wake.  The program itself enrolls and
\* re-arms descriptors with set_events_r only, until a write path has run;
\* here epoll::wait may also hand the dispatcher an event that carries
\* EPOLLOUT for an armed descriptor, which is the input handle_write_event
\* and socket::send are written for.
WritableWake(fd) ==
    /\ dpc = "wait"
    /\ fd \in DOMAIN sock
    /\ fd \in DOMAIN interest
    /\ interest[fd] # "off"
    /\ Goto("event", <<[fd |-> fd, events |-> ReadyBits(fd) \cup {"OUT"}]>>,
            NoConn, 0, 0, <<>>, "", "")
    /\ interest' = [interest EXCEPT ![fd] = "off"]
    /\ UNCHANGED <<hvars, gvars, sock, nextConn, mvars, bvars, avars, uvars>>

NextEv ==
    \/ Next
    \/ \E fd \in FDs : WritableWake(fd)

SpecEv == Init /\ [][NextEv]_vars

(* ----------------------- buf.rs: a Buffer alone ----------------------- *)

\* the byte strings given to append and prepend
Strs == UNION {[1..n -> 1..MaxByte] : n \in 0..MaxStrLen}

\* the lengths given to extract: 0, below, at and above the Buffer's
\* length, and usize::MAX
Lens == (0..(2 * MaxStrLen + 1)) \cup {USIZE_MAX}

\* Buffer::new(), and the arguments of the calls that follow
InitBuf ==
    /\ ProgramInit
    /\ bpc = "append"
    /\ ba \in Strs
    /\ bb \in Strs
    /\ bn \in Lens
    /\ bv = <<>>
    /\ bpre = <<>>
    /\ bret = <<>>

\* buf.append(a)
BufAppend ==
    /\ bpc = "append"
    /\ bv' = append(bv, ba)
    /\ bpc' = "prepend"
    /\ UNCHANGED <<ba, bb, bn, bpre, bret>>
    /\ UNCHANGED <<kvars, mvars, bvars, avars, dvars, uvars, gvars>>

\* buf.prepend(b)
BufPrepend ==
    /\ bpc = "prepend"
    /\ bv' = prepend(bv, bb)
    /\ bpc' = "extract"
    /\ UNCHANGED <<ba, bb, bn, bpre, bret>>
    /\ UNCHANGED <<kvars, mvars, bvars, avars, dvars, uvars, gvars>>

\* buf.extract(n)
BufExtract ==
    /\ bpc = "extract"
    /\ bpre' = bv
    /\ bret' = extract_ret(bv, bn)
    /\ bv' = extract_rest(bv, bn)
    /\ bpc' = "done"
    /\ UNCHANGED <<ba, bb, bn>>
    /\ UNCHANGED <<kvars, mvars, bvars, avars, dvars, uvars, gvars>>

NextBuf ==
    \/ BufAppend
    \/ BufPrepend
    \/ BufExtract

SpecBuf == InitBuf /\ [][NextBuf]_vars

(* ------------------------------ claims -------------------------------- *)

\* the descriptor holds a registered, enrolled connection whose peer is
\* there to read
ConnLive(fd) ==
    /\ fd \in DOMAIN sock
    /\ fd \in DOMAIN connMap
    /\ fd \in DOMAIN interest
    /\ fd \in DOMAIN txMap
    /\ sock[fd].st = "open"

\* C1: every byte Connection::send appended to the TX buffer of a connection
\* that stays registered is eventually taken out by the write path (the TX
\* buffer becomes empty), under fair scheduling of the dispatcher.
C1_SendEventuallyWritten ==
    \A fd \in FDs :
        (ConnLive(fd) /\ txBuf[txMap[fd]] # <<>>)
            ~> (~ConnLive(fd) \/ txBuf[txMap[fd]] = <<>>)

\* the dispatcher performs the re-arm that follows on_recv or a full send
RearmRStep == dpc = "rearm_r" /\ dpc' # "rearm_r"

\* C2: the re-arm the Reactor performs after a read wake arms read+write
\* interest whenever the TX buffer of the descriptor is non-empty.
C2_RearmCarriesWriteInterest ==
    [][(/\ RearmRStep
        /\ dpath = "read"
        /\ dconn.socket \in DOMAIN sock
        /\ dconn.socket \in DOMAIN interest
        /\ tx_buf_found(dconn.socket)
        /\ txBuf[txMap[dconn.socket]] # <<>>)
       => interest'[dconn.socket] = "RW"]_vars

\* C3: when on_error(end-of-stream) is invoked, every byte the peer wrote
\* has been drained and announced by an on_recv: none is left in the kernel
\* queue and none was drained in this wake without an on_recv.
C3_NoByteLeftAtEof ==
    (dpc = "on_error" /\ derr = "EOF")
        => /\ dtotal = 0
           /\ (dconn.socket \in DOMAIN sock
               /\ sock[dconn.socket].id = dconn.addr)
                  => sock[dconn.socket].rq = <<>>

\* the stream 1, 2, ..., n
Stream(n) == [i \in 1..n |-> i]

\* C4: whenever no write path is between its extract and its return, the
\* bytes the kernel accepted followed by the TX buffer are the bytes
\* enqueued so far, in order.
C4_TransmitConservation ==
    \A fd \in FDs :
        (/\ fd \in DOMAIN sock
         /\ tx_buf_found(fd)
         /\ txMap[fd] = sock[fd].id
         /\ ~(dpc = "send_sys" /\ dbuf = txMap[fd]))
            => sock[fd].sent \o txBuf[txMap[fd]] = Stream(enq[txMap[fd]])

\* C5: while on_recv runs for a connection, its descriptor is armed.
C5_ArmedInsideOnRecv ==
    \A i \in 1..Len(running) :
        running[i].cb = "on_recv"
            => /\ running[i].conn.socket \in DOMAIN interest
               /\ interest[running[i].conn.socket] \in {"R", "RW"}

\* C6: when on_connect is invoked, the RX and the TX buffer of the accepted
\* descriptor exist and are empty.
C6_BuffersEmptyAtOnConnect ==
    apc = "on_connect"
        => /\ rx_buf_found(aconn.socket)
           /\ tx_buf_found(aconn.socket)
           /\ rxBuf[rxMap[aconn.socket]] = <<>>
           /\ txBuf[txMap[aconn.socket]] = <<>>

\* C7: after Connection::shutdown has returned for a handle, send, recv and
\* peek through that handle find no buffer (they return the unknown-fd
\* error and change nothing).
C7_UnknownFdAfterShutdown ==
    \A h \in AllConns :
        ShutdownReturned(h)
            => /\ ~tx_buf_found(h.socket)
               /\ ~rx_buf_found(h.socket)
               /\ peek(h.socket) = -1

\* a callback is invoked with connection h
CallbackEntered(h) ==
    /\ Len(running') = Len(running) + 1
    /\ running'[Len(running')].conn = h

\* the connection is out of the registry and its descriptor is closed (and
\* with that out of the epoll interest list)
Gone(h) ==
    /\ ~(h.socket \in DOMAIN connMap /\ connMap[h.socket] = h)
    /\ \A fd \in DOMAIN sock : sock[fd].id # h.addr

\* C8, as claimed: once Connection::shutdown has returned, on whichever
\* thread it ran, the connection is gone and no callback is invoked for it.
C8_NoCallbackAfterShutdown ==
    /\ [](\A h \in AllConns : ShutdownReturned(h) => Gone(h))
    /\ [][\A h \in AllConns : ShutdownReturned(h) => ~CallbackEntered(h)]_vars

\* C8, amended: once Connection::shutdown has been called from a callback
\* (on the dispatcher thread), no callback is invoked for the connection any
\* more, and when the call has returned the connection is gone.
C8_NoCallbackAfterShutdownInCallback ==
    /\ [](\A h \in AllConns :
            (ShutdownReturned(h) /\ <<h, "D">> \in shutCalled) => Gone(h))
    /\ [][\A h \in AllConns :
            <<h, "D">> \in shutCalled => ~CallbackEntered(h)]_vars

C8_Witness ==
    \E h \in AllConns :
        /\ <<h, "D">> \in shutCalled
        /\ ShutdownReturned(h)
        /\ dpc = "wait"

\* C9: a descriptor is in the connection registry if and only if it is
\* enrolled with epoll.
C9_RegistryIffEnrolled ==
    \A fd \in FDs : fd \in DOMAIN connMap <=> fd \in DOMAIN interest

\* the on_recv invocations in flight for connection h
OnRecvInFlight(h) ==
    {i \in 1..Len(running) : running[i].cb = "on_recv" /\ running[i].conn = h}

\* handle_write_event is running for connection h
WritePathRunning(h) == dpath = "write" /\ dconn = h

\* C10: at most one on_recv is in flight for a connection, and none while
\* the write path runs for that connection.
C10_OnRecvSerialized ==
    \A h \in AllConns :
        /\ Cardinality(OnRecvInFlight(h)) <= 1
        /\ OnRecvInFlight(h) # {} => ~WritePathRunning(h)

\* on_recv is in flight for an event that also carries the writable bit
C10_Witness ==
    \E h \in AllConns :
        /\ OnRecvInFlight(h) # {}
        /\ dq # <<>>
        /\ write_event(Head(dq).events)

\* libc::recv of the drain loop returns -1 with EWOULDBLOCK: the socket is
\* open and its receive queue is empty
WouldBlockRecv ==
    /\ dpc = "recv_loop"
    /\ dpc' # dpc
    /\ dconn.socket \in DOMAIN sock
    /\ sock[dconn.socket].st = "open"
    /\ sock[dconn.socket].rq = <<>>

\* libc::send returns -1 with EWOULDBLOCK: the socket can be written to,
\* there are bytes to send and the kernel takes none
WouldBlockSend ==
    /\ dpc = "send_sys"
    /\ dpc' # dpc
    /\ dconn.socket \in DOMAIN sock
    /\ sock[dconn.socket].st \notin {"rst", "shut"}
    /\ dout # <<>>
    /\ sock' = sock

\* the step invokes on_error
ErrorEntered ==
    /\ Len(running') = Len(running) + 1
    /\ running'[Len(running')].cb = "on_error"

\* C11: a would-block of the kernel is never handed to on_error: the drain
\* loop that hits it, also with zero bytes read, returns Ok, on_recv runs
\* and the re-arm follows; the write that hits it returns Ok and the write
\* path goes on to request write interest.
C11_WouldBlockNotSurfaced ==
    [][/\ WouldBlockRecv => (~ErrorEntered /\ dstat'.ok /\ dpc' = "on_recv")
       /\ (dpc = "on_recv" /\ dpc' # dpc) => dpc' = "rearm_r"
       /\ WouldBlockSend => (~ErrorEntered /\ dstat'.ok /\ dpc' = "rearm_rw")
      ]_vars

\* an event with both bits: the drain loop ended in would-block and the read
\* path re-armed, then the write hit would-block
C11_Witness ==
    /\ dpc = "rearm_rw"
    /\ read_event(Head(dq).events)
    /\ dstat.rearms = 1
    /\ dconn.socket \in DOMAIN sock
    /\ sock[dconn.socket].id = dconn.addr
    /\ sock[dconn.socket].sent = <<>>

\* the number of bytes enqueued by the first k calls of c
RECURSIVE BytesBefore(_, _)
BytesBefore(c, k) == IF k = 0 THEN 0 ELSE BytesBefore(c, k - 1) + c[k]

\* the bytes first + 1 .. first + n stand next to each other, in order, in s
Contiguous(s, first, n) ==
    \E i \in 0..(Len(s) - n) : \A j \in 1..n : s[i + j] = first + j

\* C12: whenever no write path is between its extract and its return, the
\* bytes the kernel accepted followed by the TX buffer hold the bytes of
\* every Connection::send call next to each other and in order, and as many
\* bytes as the calls enqueued together.
C12_SendCallsContiguous ==
    \A fd \in FDs :
        (/\ fd \in DOMAIN sock
         /\ tx_buf_found(fd)
         /\ txMap[fd] = sock[fd].id
         /\ ~(dpc = "send_sys" /\ dbuf = txMap[fd]))
            => LET c == calls[txMap[fd]]
                   s == sock[fd].sent \o txBuf[txMap[fd]]
               IN  /\ Len(s) = BytesBefore(c, Len(c))
                   /\ \A k \in 1..Len(c) :
                          Contiguous(s, BytesBefore(c, k - 1), c[k])

\* C13: extract(n) returns the first min(n, len) bytes of the Buffer, takes
\* exactly those out and leaves the rest in its order, for every content
\* and every n; append(b) on an empty Buffer followed by extract(len(b))
\* returns b and leaves the Buffer empty.
C13_ExtractTakesPrefix ==
    bpc = "done"
        => LET k == IF bn <= Len(bpre) THEN bn ELSE Len(bpre)
           IN  /\ bret = SubSeq(bpre, 1, k)
               /\ bv = SubSeq(bpre, k + 1, Len(bpre))
               /\ Len(bv) = Len(bpre) - k
               /\ (bb = <<>> /\ bn = Len(ba)) => (bret = ba /\ bv = <<>>)

\* an extract of usize::MAX bytes from a Buffer that holds different bytes
C13_Witness ==
    /\ bpc = "done"
    /\ bn = USIZE_MAX
    /\ Len(bret) >= 2
    /\ bret[1] # bret[2]

\* C14: bytes appended to an empty Buffer are stored in their order, bytes
\* prepended stand before all bytes stored before; append(a), prepend(b),
\* extract(len(a) + len(b)) on an empty Buffer returns b followed by a.
C14_PrependPrecedes ==
    /\ bpc = "prepend" => bv = ba
    /\ bpc = "extract"
          => /\ Len(bv) = Len(bb) + Len(ba)
             /\ \A i \in 1..Len(bb) : bv[i] = bb[i]
             /\ \A i \in 1..Len(ba) : bv[Len(bb) + i] = ba[i]
    /\ (bpc = "done" /\ bn = Len(ba) + Len(bb))
          => /\ Len(bret) = Len(bb) + Len(ba)
             /\ \A i \in 1..Len(bb) : bret[i] = bb[i]
             /\ \A i \in 1..Len(ba) : bret[Len(bb) + i] = ba[i]
             /\ bv = <<>>

\* the three calls made with two different non-empty strings
C14_Witness ==
    /\ bpc = "done"
    /\ bn = Len(ba) + Len(bb)
    /\ ba # <<>>
    /\ bb # <<>>
    /\ ba \o bb # bb \o ba

\* the Arc<Buffer> socket::send holds is still the TX buffer of a descriptor
SendBufMapped == \E fd \in DOMAIN txMap : txMap[fd] = dbuf

\* C15: when the kernel write of socket::send reports would-block, no byte
\* was sent, the extracted bytes are put back at the front of the TX buffer
\* (before anything appended meanwhile) and the result is (0, true).
C15_WouldBlockPutsBack ==
    [][(WouldBlockSend /\ SendBufMapped)
          => /\ sock'[dconn.socket].sent = sock[dconn.socket].sent
             /\ txBuf'[dbuf] = dout \o txBuf[dbuf]
             /\ dpc' = "rearm_rw"]_vars

\* libc::send returns 0 < sent < l: the kernel takes a proper prefix of the
\* extracted bytes
PartialWrite ==
    /\ dpc = "send_sys"
    /\ dpc' # dpc
    /\ dconn.socket \in DOMAIN sock
    /\ \E r \in 1..(Len(dout) - 1) :
           sock'[dconn.socket].sent =
               sock[dconn.socket].sent \o SubSeq(dout, 1, r)

\* the bytes of dout the kernel did not take in this step
Unsent ==
    SubSeq(dout,
           Len(sock'[dconn.socket].sent) - Len(sock[dconn.socket].sent) + 1,
           Len(dout))

\* C16: after a partial kernel write the result is (sent, true) and the TX
\* buffer is the unsent suffix of the extracted bytes followed by the bytes
\* appended since the extract.
C16_PartialWritePutsBackSuffix ==
    [][(PartialWrite /\ SendBufMapped)
          => /\ dpc' = "rearm_rw"
             /\ dstat'.ok
             /\ txBuf'[dbuf] = Unsent \o txBuf[dbuf]]_vars

\* a partial write has put back its suffix in front of a byte that was
\* appended between the extract and the prepend
C16_Witness ==
    /\ dpc = "rearm_rw"
    /\ dconn.socket \in DOMAIN sock
    /\ tx_buf_found(dconn.socket)
    /\ sock[dconn.socket].id = dconn.addr
    /\ txMap[dconn.socket] = dconn.addr
    /\ sock[dconn.socket].sent = <<1>>
    /\ txBuf[txMap[dconn.socket]] = <<2, 3>>
    /\ calls[txMap[dconn.socket]] = <<2, 1>>

\* the dispatcher calls epoll_mod for descriptor fd and the call takes effect
Rearms(fd) ==
    /\ dpc \in {"rearm_r", "rearm_rw"}
    /\ dpc' # dpc
    /\ dconn.socket = fd
    /\ fd \in DOMAIN interest'
    /\ interest'[fd] # "off"

\* C17: once the write path has armed read+write interest for a descriptor,
\* every later re-arm of the descriptor arms read+write again for as long
\* as its TX buffer holds bytes; a wake with only the readable bit does not
\* bring the interest down to read-only.
C17_WriteInterestKept ==
    [][\A fd \in FDs :
          (/\ fd \in armedRW
           /\ Rearms(fd)
           /\ tx_buf_found(fd)
           /\ txBuf[txMap[fd]] # <<>>)
              => interest'[fd] = set_events_rw]_vars

\* the dispatcher is done with the event at the head of the batch
EventDone == dq # <<>> /\ dq' = Tail(dq)

\* C18: an event that is handled with success has had exactly one re-arm
\* call when the dispatcher is done with it, also when it carries both the
\* readable and the writable bit; an event handled as a close event, or one
\* whose read or write path returned an error, has had none.
C18_OneRearmPerEvent ==
    [][EventDone
          => /\ (dstat'.ok /\ ~dstat'.err) => dstat'.rearms = 1
             /\ (dpath = "close" \/ dstat'.err) => dstat'.rearms = 0]_vars

\* the dispatcher issues epoll_ctl(EPOLL_CTL_MOD): from epoll_rearm_r, or
\* from epoll_rearm_rw when its map_get finds the connection
ModifyIssued ==
    /\ dpc' # dpc
    /\ \/ dpc = "rearm_r"
       \/ dpc = "rearm_rw" /\ dconn.socket \in DOMAIN connMap

\* C19: every modify the Reactor issues is for a descriptor that is open,
\* enrolled with epoll and in the connection registry as the connection
\* being handled.
C19_RearmTargetsEnrolled ==
    [][ModifyIssued
          => /\ dconn.socket \in DOMAIN sock
             /\ dconn.socket \in DOMAIN interest
             /\ dconn.socket \in DOMAIN connMap
             /\ connMap[dconn.socket] = dconn]_vars

\* a step of the Reactor on the close path: handle_close_event, or its
\* return after on_error
ClosePathStep == dpath = "close" /\ dpc' # dpc

\* C20: the close path changes neither the registry, the epoll enrollment,
\* the buffer maps, the buffers nor the descriptor, re-arms nothing and
\* invokes on_error exactly when the descriptor is in the registry; buffer
\* map entries and descriptors go away only inside Connection::shutdown.
C20_ClosePathChangesNothing ==
    /\ [](dpath = "close" => dpc \in {"close", "on_error"})
    /\ [][ClosePathStep
             => /\ UNCHANGED <<sock, interest, connMap, rxMap, txMap, rxBuf,
                               txBuf>>
                /\ dstat'.rearms = 0
                /\ dpc = "close"
                      => IF Head(dq).fd \in DOMAIN connMap
                         THEN /\ ErrorEntered
                              /\ running'[Len(running')].conn
                                     = connMap[Head(dq).fd]
                         ELSE running' = running]_vars
    /\ [][\A fd \in FDs :
             (\/ fd \in DOMAIN rxMap \ DOMAIN rxMap'
              \/ fd \in DOMAIN txMap \ DOMAIN txMap'
              \/ fd \in DOMAIN sock \ DOMAIN sock')
                => \E t \in Threads :
                       /\ sh[t].pc \in {"sock_shutdown", "close"}
                       /\ sh[t].conn.socket = fd]_vars

\* on_error runs for a close event and the connection, its enrollment, its
\* buffers and its descriptor are all still there
C20_Witness ==
    /\ dpath = "close"
    /\ dpc = "on_error"
    /\ dconn.socket \in DOMAIN sock
    /\ dconn.socket \in DOMAIN interest
    /\ dconn.socket \in DOMAIN connMap
    /\ rx_buf_found(dconn.socket)
    /\ tx_buf_found(dconn.socket)

\* C21: no descriptor is ever armed with read+write interest: every enrolled
\* descriptor has read interest or is disarmed, no event carries the
\* writable bit and handle_write_event is never executed.
C21_WriteInterestNeverArmed ==
    /\ \A fd \in DOMAIN interest : interest[fd] \in {set_events_r, "off"}
    /\ \A i \in 1..Len(dq) : ~write_event(dq[i].events)
    /\ dpath # "write"
    /\ dpc \notin {"write", "send", "send_sys", "rearm_rw"}
    /\ armedRW = {}

\* user code has enqueued bytes, a read wake has drained a peer byte and the
\* descriptor has been re-armed
C21_Witness ==
    \E fd \in DOMAIN interest :
        /\ interest[fd] = set_events_r
        /\ dpc = "wait"
        /\ fd \in DOMAIN sock
        /\ sock[fd].wrote > 0
        /\ sock[fd].rq = <<>>
        /\ tx_buf_found(fd)
        /\ txMap[fd] = sock[fd].id
        /\ txBuf[txMap[fd]] # <<>>

\* the step invokes on_error for connection h, which is registered and for
\* which Connection::shutdown has not been called
ErrorEnteredFor(h) ==
    /\ ErrorEntered
    /\ running'[Len(running')].conn = h
    /\ \A t \in Threads : <<h, t>> \notin shutCalled

\* C22: between add_conn and Connection::shutdown the Reactor invokes
\* on_error at most once for a connection, also when the callback does not
\* call shutdown.
C22_OnErrorAtMostOnce ==
    [][\A h \in AllConns : ErrorEnteredFor(h) => h.addr \notin errored]_vars

====
